---- MODULE Spec2Model ----
(***************************************************************************)
(* Model of src/bot.py: the per-user store `users`, the per-user scratch   *)
(* dictionary `context.user_data`, the two ConversationHandlers registered *)
(* in main() and the command handlers.                                     *)
(*                                                                         *)
(* One action is one handler run for one inbound update.  The application  *)
(* is built without concurrent_updates, so updates are handled one after   *)
(* the other and a handler runs to its return: `running`, the handlers     *)
(* suspended at an await, is then empty.  `reply` is the text the handler  *)
(* passed to reply_text, kept by its kind and its formatted figures.       *)
(* Every user talks to the bot in one chat, so each ConversationHandler    *)
(* has one conversation key per user.                                      *)
(*                                                                         *)
(* Python values: None is [k |-> "None"]; a float is                       *)
(* [k |-> "float", nan |-> BOOLEAN, v |-> Int], exact when finite.         *)
(* Energies are counted in thousandths of a kcal so that 6.25 * height,    *)
(* x / 100.0 and kJ * 0.239006 stay exact; all other floats are counted in *)
(* their own unit (kg, cm, years, minutes, ml, degrees C).                 *)
(***************************************************************************)
EXTENDS Integers, Sequences, FiniteSets, TLC

VARIABLES users, user_data, profile_conv, food_conv, update, reply, running

vars == <<users, user_data, profile_conv, food_conv, update, reply, running>>

----------------------------------------------------------------------------
(* Bounds of the model *)

\* the model stops logging water above this total (ml)
MaxLoggedWater == 3000
\* the model keeps logged_calories within -MaxLoggedKcal .. MaxLoggedKcal (kcal)
MaxLoggedKcal == 375
\* the model stops logging workouts above this total (kcal)
MaxBurnedKcal == 450

\* an energy of n kcal, in thousandths of a kcal
Kcal(n) == 1000 * n

Users == {"u1"}

----------------------------------------------------------------------------
(* Python values *)

None == [k |-> "None"]
NaN == [k |-> "float", nan |-> TRUE, v |-> 0]
Num(x) == [k |-> "float", nan |-> FALSE, v |-> x]

IsNone(x) == x.k = "None"
IsNaN(x) == x.k = "float" /\ x.nan
IsNum(x) == x.k = "float" /\ ~x.nan

\* float comparisons: every comparison with NaN is False
FLt(a, b) == IsNum(a) /\ IsNum(b) /\ a.v < b.v
FLe(a, b) == IsNum(a) /\ IsNum(b) /\ a.v <= b.v
FGt(a, b) == IsNum(a) /\ IsNum(b) /\ a.v > b.v

\* float arithmetic: NaN propagates
FAdd(a, b) == IF IsNaN(a) \/ IsNaN(b) THEN NaN ELSE Num(a.v + b.v)
FSub(a, b) == IF IsNaN(a) \/ IsNaN(b) THEN NaN ELSE Num(a.v - b.v)
\* a * c and a // c for a finite constant c > 0
FScale(a, c) == IF IsNaN(a) THEN NaN ELSE Num(a.v * c)
FFloorDiv(a, c) == IF IsNaN(a) THEN NaN ELSE Num(a.v \div c)
\* a / c, for the inputs of the model an exact quotient
FDiv(a, c) == IF IsNaN(a) THEN NaN ELSE Num(a.v \div c)
FMul(a, b) == IF IsNaN(a) \/ IsNaN(b) THEN NaN ELSE Num(a.v * b.v)

----------------------------------------------------------------------------
(* Ids of the conversation states *)

SET_WEIGHT == 0
SET_HEIGHT == 1
SET_AGE == 2
SET_ACTIVITY == 3
SET_CITY == 4
SET_CAL_GOAL == 5
FOOD_GRAMS == 10
\* ConversationHandler.END; a conversation that is not running has no state
END == -1

----------------------------------------------------------------------------
(* parse_float *)

\* text.replace(",", ".")
ReplaceComma(text) ==
    CASE text = "70,0" -> "70.0"
      [] OTHER -> text

\* float(s); None stands for ValueError
PyFloat(s) ==
    CASE s = "0" -> Num(0)
      [] s = "-5" -> Num(-5)
      [] s = "30" -> Num(30)
      [] s = "45" -> Num(45)
      [] s = "70.0" -> Num(70)
      [] s = "150" -> Num(150)
      [] s = "175" -> Num(175)
      [] s = "1500" -> Num(1500)
      [] s = "2000" -> Num(2000)
      [] s = "nan" -> NaN
      [] OTHER -> None

parse_float(text) == PyFloat(ReplaceComma(text))

\* str.strip()
Strip(text) ==
    CASE text = "  " -> ""
      [] text = " X " -> "X"
      [] OTHER -> text

----------------------------------------------------------------------------
(* Derivation functions *)

\* calc_water_goal with temp_c >= 30 and temp_c >= 25 for its two comparisons
calc_water_goal_inclusive(weight, activity_min, temp_c) ==
    LET base == FScale(weight, 30)
        activity_bonus == FScale(FFloorDiv(activity_min, 30), 500)
        heat_bonus == IF IsNone(temp_c) THEN Num(0)
                      ELSE IF FLe(Num(30), temp_c) THEN Num(1000)
                      ELSE IF FLe(Num(25), temp_c) THEN Num(500)
                      ELSE Num(0)
    IN  FAdd(FAdd(base, activity_bonus), heat_bonus)

calc_water_goal(weight, activity_min, temp_c) ==
    LET base == FScale(weight, 30)
        activity_bonus == FScale(FFloorDiv(activity_min, 30), 500)
        heat_bonus == IF IsNone(temp_c) THEN Num(0)
                      ELSE IF FGt(temp_c, Num(30)) THEN Num(1000)
                      ELSE IF FGt(temp_c, Num(25)) THEN Num(500)
                      ELSE Num(0)
    IN  FAdd(FAdd(base, activity_bonus), heat_bonus)

\* calc_calorie_goal with activity_min < 30 and activity_min < 60 for its two
\* comparisons
calc_calorie_goal_exclusive(weight, height, age, activity_min) ==
    LET base == FSub(FAdd(FScale(weight, Kcal(10)), FScale(height, 6250)),
                     FScale(age, Kcal(5)))
        activity_bonus == IF FLt(activity_min, Num(30)) THEN 200
                          ELSE IF FLt(activity_min, Num(60)) THEN 300
                          ELSE 400
    IN  FAdd(base, Num(Kcal(activity_bonus)))

\* 6.25 kcal = 6250 thousandths
calc_calorie_goal(weight, height, age, activity_min) ==
    LET base == FSub(FAdd(FScale(weight, Kcal(10)), FScale(height, 6250)),
                     FScale(age, Kcal(5)))
        activity_bonus == IF FLe(activity_min, Num(30)) THEN 200
                          ELSE IF FLe(activity_min, Num(60)) THEN 300
                          ELSE 400
    IN  FAdd(base, Num(Kcal(activity_bonus)))

Lower(workout_type) ==
    CASE workout_type = "RUN" -> "run"
      [] OTHER -> workout_type

per_min(workout_type) ==
    CASE workout_type = "run" -> 10
      [] workout_type = "running" -> 10
      [] workout_type = "jog" -> 8
      [] workout_type = "walk" -> 4
      [] workout_type = "walking" -> 4
      [] workout_type = "bike" -> 8
      [] workout_type = "cycling" -> 8
      [] workout_type = "swim" -> 9
      [] workout_type = "gym" -> 6
      [] workout_type = "hiit" -> 12
      [] workout_type = "yoga" -> 3
      [] OTHER -> 5

\* minutes * per_min * (weight / 70.0)
calc_workout_burned(workout_type, minutes, weight) ==
    FDiv(FMul(FScale(minutes, Kcal(per_min(Lower(workout_type)))), weight), 70)

----------------------------------------------------------------------------
(* Lookup adapters *)

\* what get_temperature_c can return: None (no key, or any failure) or a float
Temperatures == {None, Num(31)}

\* what the food database can answer to the GET of search_food_kcal
NoProduct == [k |-> "ok", products |-> << >>]
Product(name, kcal, kj) ==
    [k |-> "ok",
     products |-> << [product_name |-> name, energy_kcal_100g |-> kcal, energy_100g |-> kj] >>]

FoodResponses ==
    { [k |-> "error"],
      NoProduct,
      Product("", None, None),
      Product("Apple", Num(250), Num(1046)),
      Product("Ice", Num(-250), None),
      Product("", None, Num(0)) }

PendingFood(name, kcal_per_100g) ==
    [k |-> "PendingFood", name |-> name, kcal_per_100g |-> kcal_per_100g]

\* 0.239006 kcal = 239006 / 1000 thousandths
search_food_kcal(food_name, resp) ==
    IF resp.k = "error" THEN None
    ELSE IF resp.products = << >> THEN None
    ELSE LET product == resp.products[1]
             name == IF product.product_name = "" THEN food_name ELSE product.product_name
             kcal == IF ~IsNone(product.energy_kcal_100g)
                     THEN FScale(product.energy_kcal_100g, Kcal(1))
                     ELSE IF ~IsNone(product.energy_100g)
                          THEN FDiv(FScale(product.energy_100g, 239006), 1000)
                          ELSE None
         IN  IF IsNone(kcal) THEN None ELSE PendingFood(name, kcal)

----------------------------------------------------------------------------
(* User store *)

Str(s) == [k |-> "str", s |-> s]

DefaultRecord ==
    [weight |-> None, height |-> None, age |-> None, activity |-> None, city |-> None,
     water_goal |-> None, calorie_goal |-> None,
     logged_water |-> Num(0), logged_calories |-> Num(0), burned_calories |-> Num(0),
     pending_food |-> None]

\* users.setdefault(user_id, {...}): the store after the call
get_user(user_id) ==
    IF user_id \in DOMAIN users THEN users ELSE (user_id :> DefaultRecord) @@ users

\* the dictionary get_user(user_id) returns
Data(user_id) == get_user(user_id)[user_id]

\* context.user_data of a user: a dictionary, a function on the keys it holds
EmptyDict == [key \in {} |-> None]
SetItem(dict, key, value) == (key :> value) @@ dict

----------------------------------------------------------------------------
(* Inbound updates *)

NoArg == "<none>"
\* the update just handled: its sender, its command ("text" for a message that
\* is not a command), its text or arguments, and the answer of the lookup
\* adapter the handler called, if it called one
Update(user, cmd, arg, ext) == [user |-> user, cmd |-> cmd, arg |-> arg, ext |-> ext]
NoUpdate == Update("", "", <<NoArg>>, None)

WeightTexts == {"abc", "0", "70,0"}
HeightTexts == {"0", "175"}
AgeTexts == {"-5", "30"}
ActivityTexts == {"-5", "0", "nan"}
CityTexts == {"  ", " X "}
CalGoalTexts == {"-5", "0", "2000"}
GramsTexts == {"0", "150", "nan"}
\* context.args of /log_water, /log_food and /log_workout
WaterArgs == {<<"0">>, <<"1500">>, <<"nan">>}
FoodArgs == {<< >>, <<"apple">>}
WorkoutArgs == {<<"run">>, <<"RUN", "45">>}

----------------------------------------------------------------------------
(* Replies *)

\* n / d rounded to the nearest integer, ties to the even one, for d > 0
RoundHalfEven(n, d) ==
    LET q == n \div d
        r == n % d
    IN  IF 2 * r < d THEN q
        ELSE IF 2 * r > d THEN q + 1
        ELSE IF q % 2 = 0 THEN q ELSE q + 1

\* f"{x:.0f}" and f"{x:.1f}" of a float counted in 1/per of its unit: the number
\* the text shows, in whole units respectively in tenths; "nan" for NaN
Format0(x, per) == IF IsNaN(x) THEN NaN ELSE Num(RoundHalfEven(x.v, per))
Format1(x, per) == IF IsNaN(x) THEN NaN ELSE Num(RoundHalfEven(10 * x.v, per))

\* max(x, 0): x unless 0 > x
Max0(x) == IF FGt(Num(0), x) THEN Num(0) ELSE x

\* a reply without figures
Text(kind) == [k |-> kind]
NoReply == Text("")

WaterLogged(amount, remaining) ==
    [k |-> "water_logged", amount |-> Format0(amount, 1),
     remaining |-> Format0(remaining, 1)]

FoodFound(pending) ==
    [k |-> "food_found", name |-> pending.name,
     kcal_per_100g |-> Format0(pending.kcal_per_100g, Kcal(1))]

FoodLogged(kcal) == [k |-> "food_logged", kcal |-> Format1(kcal, Kcal(1))]

WorkoutLogged(workout_type, minutes, burned, extra_water) ==
    [k |-> "workout_logged", workout_type |-> workout_type,
     minutes |-> Format0(minutes, 1), burned |-> Format0(burned, Kcal(1)),
     extra_water |-> Format0(extra_water, 1)]

ProfileSaved(temp_c, water_goal, calorie_goal) ==
    [k |-> "profile_saved",
     temp_c |-> IF IsNone(temp_c) THEN None ELSE Format1(temp_c, 1),
     water_goal |-> Format0(water_goal, 1),
     calorie_goal |-> Format0(calorie_goal, Kcal(1))]

\* the text of check_progress for the record data
Progress(data) ==
    LET water_goal == data.water_goal
        water_left == Max0(FSub(water_goal, data.logged_water))
        calorie_goal == data.calorie_goal
        consumed == data.logged_calories
        burned == data.burned_calories
        net == FSub(consumed, burned)
        remaining == Max0(FSub(calorie_goal, net))
    IN  [k |-> "progress",
         logged_water |-> Format0(data.logged_water, 1),
         water_goal |-> Format0(water_goal, 1),
         water_left |-> Format0(water_left, 1),
         consumed |-> Format0(consumed, Kcal(1)),
         calorie_goal |-> Format0(calorie_goal, Kcal(1)),
         burned |-> Format0(burned, Kcal(1)),
         net |-> Format0(net, Kcal(1)),
         remaining |-> Format0(remaining, Kcal(1))]

----------------------------------------------------------------------------
(* Routing: the handlers of main() are in one group, the first whose *)
(* check_update accepts the update handles it.  A running            *)
(* conversation accepts the texts of its state and /cancel, a        *)
(* conversation that is not running accepts its entry command only.  *)
(* An update no handler accepts (a text or /cancel outside of any    *)
(* conversation, an entry command of a running conversation) changes *)
(* nothing and is not an action.                                     *)

InProfile(u) == profile_conv[u] # END
InFood(u) == food_conv[u] # END

\* a text that is not a command: profile_conv takes it in any of its states,
\* food_conv only when profile_conv declines
ToProfileState(u, state) == profile_conv[u] = state
ToFoodState(u, state) == ~InProfile(u) /\ food_conv[u] = state

----------------------------------------------------------------------------
(* Profile dialogue *)

Init ==
    /\ users = [user_id \in {} |-> DefaultRecord]
    /\ user_data = [u \in Users |-> EmptyDict]
    /\ profile_conv = [u \in Users |-> END]
    /\ food_conv = [u \in Users |-> END]
    /\ update = NoUpdate
    /\ reply = NoReply
    /\ running = << >>

start(u) ==
    /\ update' = Update(u, "start", << >>, None)
    /\ reply' = Text("help")
    /\ UNCHANGED <<users, user_data, profile_conv, food_conv, running>>

\* entry point of profile_conv: taken only while the conversation is not running
set_profile(u) ==
    /\ ~InProfile(u)
    /\ profile_conv' = [profile_conv EXCEPT ![u] = SET_WEIGHT]
    /\ update' = Update(u, "set_profile", << >>, None)
    /\ reply' = Text("ask_weight")
    /\ UNCHANGED <<users, user_data, food_conv, running>>

set_weight(u, text) ==
    LET value == parse_float(text) IN
    /\ ToProfileState(u, SET_WEIGHT)
    /\ update' = Update(u, "text", <<text>>, None)
    /\ IF IsNone(value) \/ FLe(value, Num(0))
       THEN /\ reply' = Text("weight_invalid")
            /\ profile_conv' = [profile_conv EXCEPT ![u] = SET_WEIGHT]
            /\ UNCHANGED user_data
       ELSE /\ user_data' = [user_data EXCEPT ![u] = SetItem(@, "weight", value)]
            /\ reply' = Text("ask_height")
            /\ profile_conv' = [profile_conv EXCEPT ![u] = SET_HEIGHT]
    /\ UNCHANGED <<users, food_conv, running>>

\* set_height returning SET_ACTIVITY: the age step is skipped
set_height_skips_age(u, text) ==
    LET value == parse_float(text) IN
    /\ ToProfileState(u, SET_HEIGHT)
    /\ update' = Update(u, "text", <<text>>, None)
    /\ IF IsNone(value) \/ FLe(value, Num(0))
       THEN /\ reply' = Text("height_invalid")
            /\ profile_conv' = [profile_conv EXCEPT ![u] = SET_HEIGHT]
            /\ UNCHANGED user_data
       ELSE /\ user_data' = [user_data EXCEPT ![u] = SetItem(@, "height", value)]
            /\ reply' = Text("ask_activity")
            /\ profile_conv' = [profile_conv EXCEPT ![u] = SET_ACTIVITY]
    /\ UNCHANGED <<users, food_conv, running>>

set_height(u, text) ==
    LET value == parse_float(text) IN
    /\ ToProfileState(u, SET_HEIGHT)
    /\ update' = Update(u, "text", <<text>>, None)
    /\ IF IsNone(value) \/ FLe(value, Num(0))
       THEN /\ reply' = Text("height_invalid")
            /\ profile_conv' = [profile_conv EXCEPT ![u] = SET_HEIGHT]
            /\ UNCHANGED user_data
       ELSE /\ user_data' = [user_data EXCEPT ![u] = SetItem(@, "height", value)]
            /\ reply' = Text("ask_age")
            /\ profile_conv' = [profile_conv EXCEPT ![u] = SET_AGE]
    /\ UNCHANGED <<users, food_conv, running>>

set_age(u, text) ==
    LET value == parse_float(text) IN
    /\ ToProfileState(u, SET_AGE)
    /\ update' = Update(u, "text", <<text>>, None)
    /\ IF IsNone(value) \/ FLe(value, Num(0))
       THEN /\ reply' = Text("age_invalid")
            /\ profile_conv' = [profile_conv EXCEPT ![u] = SET_AGE]
            /\ UNCHANGED user_data
       ELSE /\ user_data' = [user_data EXCEPT ![u] = SetItem(@, "age", value)]
            /\ reply' = Text("ask_activity")
            /\ profile_conv' = [profile_conv EXCEPT ![u] = SET_ACTIVITY]
    /\ UNCHANGED <<users, food_conv, running>>

set_activity(u, text) ==
    LET value == parse_float(text) IN
    /\ ToProfileState(u, SET_ACTIVITY)
    /\ update' = Update(u, "text", <<text>>, None)
    /\ IF IsNone(value) \/ FLt(value, Num(0))
       THEN /\ reply' = Text("activity_invalid")
            /\ profile_conv' = [profile_conv EXCEPT ![u] = SET_ACTIVITY]
            /\ UNCHANGED user_data
       ELSE /\ user_data' = [user_data EXCEPT ![u] = SetItem(@, "activity", value)]
            /\ reply' = Text("ask_city")
            /\ profile_conv' = [profile_conv EXCEPT ![u] = SET_CITY]
    /\ UNCHANGED <<users, food_conv, running>>

set_city(u, text) ==
    LET city == Strip(text) IN
    /\ ToProfileState(u, SET_CITY)
    /\ update' = Update(u, "text", <<text>>, None)
    /\ IF city = ""
       THEN /\ reply' = Text("city_invalid")
            /\ profile_conv' = [profile_conv EXCEPT ![u] = SET_CITY]
            /\ UNCHANGED user_data
       ELSE /\ user_data' = [user_data EXCEPT ![u] = SetItem(@, "city", Str(city))]
            /\ reply' = Text("ask_cal_goal")
            /\ profile_conv' = [profile_conv EXCEPT ![u] = SET_CAL_GOAL]
    /\ UNCHANGED <<users, food_conv, running>>

ProfileKeys == {"weight", "height", "age", "activity", "city"}

\* the update without its "height" entry: the stored height stays the old one
update_profile_without_height(data, scratch, water_goal, calorie_goal) ==
    [data EXCEPT !.weight = scratch["weight"],
                 !.age = scratch["age"], !.activity = scratch["activity"],
                 !.city = scratch["city"],
                 !.water_goal = water_goal, !.calorie_goal = calorie_goal]

\* the update without its "water_goal" entry: the stored water goal stays the
\* old one
update_profile_without_water_goal(data, scratch, water_goal, calorie_goal) ==
    [data EXCEPT !.weight = scratch["weight"], !.height = scratch["height"],
                 !.age = scratch["age"], !.activity = scratch["activity"],
                 !.city = scratch["city"],
                 !.calorie_goal = calorie_goal]

\* the update with entries that also start the three totals again
update_profile_resets_totals(data, scratch, water_goal, calorie_goal) ==
    [data EXCEPT !.weight = scratch["weight"], !.height = scratch["height"],
                 !.age = scratch["age"], !.activity = scratch["activity"],
                 !.city = scratch["city"],
                 !.water_goal = water_goal, !.calorie_goal = calorie_goal,
                 !.logged_water = Num(0), !.logged_calories = Num(0),
                 !.burned_calories = Num(0)]

\* data.update({...}) of set_cal_goal
update_profile(data, scratch, water_goal, calorie_goal) ==
    [data EXCEPT !.weight = scratch["weight"], !.height = scratch["height"],
                 !.age = scratch["age"], !.activity = scratch["activity"],
                 !.city = scratch["city"],
                 !.water_goal = water_goal, !.calorie_goal = calorie_goal]

\* temp_c is the answer of get_temperature_c(city); the lookup is made only
\* after the reply has passed the check
set_cal_goal(u, text, temp_c) ==
    LET manual_goal == parse_float(text)
        scratch == user_data[u]
    IN
    /\ ToProfileState(u, SET_CAL_GOAL)
    /\ IF ~(ProfileKeys \subseteq DOMAIN scratch)
       THEN \* KeyError: the handler raises after get_user and sends no reply,
            \* the conversation keeps its state
            /\ users' = get_user(u)
            /\ update' = Update(u, "text", <<text>>, None)
            /\ reply' = NoReply
            /\ UNCHANGED <<user_data, profile_conv>>
       ELSE IF IsNone(manual_goal) \/ FLt(manual_goal, Num(0))
       THEN /\ users' = get_user(u)
            /\ update' = Update(u, "text", <<text>>, None)
            /\ reply' = Text("cal_goal_invalid")
            /\ profile_conv' = [profile_conv EXCEPT ![u] = SET_CAL_GOAL]
            /\ UNCHANGED user_data
       ELSE LET weight == scratch["weight"]
                height == scratch["height"]
                age == scratch["age"]
                activity == scratch["activity"]
                water_goal == calc_water_goal(weight, activity, temp_c)
                calorie_goal == IF FGt(manual_goal, Num(0))
                                THEN FScale(manual_goal, Kcal(1))
                                ELSE calc_calorie_goal(weight, height, age, activity)
            IN  /\ users' = [get_user(u) EXCEPT ![u] =
                               update_profile(@, scratch, water_goal, calorie_goal)]
                /\ update' = Update(u, "text", <<text>>, temp_c)
                /\ reply' = ProfileSaved(temp_c, water_goal, calorie_goal)
                /\ user_data' = [user_data EXCEPT ![u] = EmptyDict]
                /\ profile_conv' = [profile_conv EXCEPT ![u] = END]
    /\ UNCHANGED <<food_conv, running>>

----------------------------------------------------------------------------
(* Command handlers and food dialogue *)

InRange(x, lo, hi) == IsNaN(x) \/ (lo <= x.v /\ x.v <= hi)

\* log_water from its first line to the await of its reply_text: no await
\* lies between the read and the write of data["logged_water"] += amount
log_water_to_await(u, args) ==
    LET data == Data(u)
        amount == parse_float(args[1])
        logged_water == FAdd(data.logged_water, amount)
        remaining == Max0(FSub(data.water_goal, logged_water))
    IN
    /\ update' = Update(u, "log_water", args, None)
    /\ IF IsNone(data.weight)
       THEN users' = get_user(u) /\ reply' = Text("need_profile")
       ELSE IF args = << >>
       THEN users' = get_user(u) /\ reply' = Text("water_usage")
       ELSE IF IsNone(amount) \/ FLe(amount, Num(0))
       THEN users' = get_user(u) /\ reply' = Text("water_invalid")
       ELSE /\ InRange(logged_water, 0, MaxLoggedWater)
            /\ users' = [get_user(u) EXCEPT ![u].logged_water = logged_water]
            /\ reply' = WaterLogged(amount, remaining)
    /\ UNCHANGED <<user_data, profile_conv, food_conv>>

\* updates are taken one after the other: the handler has returned before the
\* next one starts
log_water(u, args) ==
    /\ log_water_to_await(u, args)
    /\ UNCHANGED running

\* log_food without its check of data["weight"]
log_food_unchecked(u, args, resp) ==
    LET food_name == Strip(args[1])
        pending == search_food_kcal(food_name, resp)
    IN
    /\ ~InFood(u)
    /\ IF args = << >>
       THEN /\ users' = get_user(u)
            /\ update' = Update(u, "log_food", args, None)
            /\ reply' = Text("food_usage")
            /\ food_conv' = [food_conv EXCEPT ![u] = END]
       ELSE /\ update' = Update(u, "log_food", args, pending)
            /\ IF IsNone(pending)
               THEN /\ users' = get_user(u)
                    /\ reply' = Text("food_not_found")
                    /\ food_conv' = [food_conv EXCEPT ![u] = END]
               ELSE /\ users' = [get_user(u) EXCEPT ![u].pending_food = pending]
                    /\ reply' = FoodFound(pending)
                    /\ food_conv' = [food_conv EXCEPT ![u] = FOOD_GRAMS]
    /\ UNCHANGED <<user_data, profile_conv, running>>

\* log_food that stores what the lookup returned, None included, and asks for
\* the grams
log_food_ignores_not_found(u, args, resp) ==
    LET data == Data(u)
        food_name == Strip(args[1])
        pending == search_food_kcal(food_name, resp)
    IN
    /\ ~InFood(u)
    /\ IF IsNone(data.weight) \/ args = << >>
       THEN /\ users' = get_user(u)
            /\ update' = Update(u, "log_food", args, None)
            /\ reply' = IF IsNone(data.weight) THEN Text("need_profile")
                         ELSE Text("food_usage")
            /\ food_conv' = [food_conv EXCEPT ![u] = END]
       ELSE /\ update' = Update(u, "log_food", args, pending)
            /\ users' = [get_user(u) EXCEPT ![u].pending_food = pending]
            /\ reply' = IF IsNone(pending) THEN Text("food_not_found")
                         ELSE FoodFound(pending)
            /\ food_conv' = [food_conv EXCEPT ![u] = FOOD_GRAMS]
    /\ UNCHANGED <<user_data, profile_conv, running>>

\* entry point of food_conv: taken only while the conversation is not running;
\* resp is the answer of the food database to the GET of search_food_kcal
log_food(u, args, resp) ==
    LET data == Data(u)
        \* " ".join(context.args).strip(), for one argument
        food_name == Strip(args[1])
        pending == search_food_kcal(food_name, resp)
    IN
    /\ ~InFood(u)
    /\ IF IsNone(data.weight) \/ args = << >>
       THEN /\ users' = get_user(u)
            /\ update' = Update(u, "log_food", args, None)
            /\ reply' = IF IsNone(data.weight) THEN Text("need_profile")
                         ELSE Text("food_usage")
            /\ food_conv' = [food_conv EXCEPT ![u] = END]
       ELSE /\ update' = Update(u, "log_food", args, pending)
            /\ IF IsNone(pending)
               THEN /\ users' = get_user(u)
                    /\ reply' = Text("food_not_found")
                    /\ food_conv' = [food_conv EXCEPT ![u] = END]
               ELSE /\ users' = [get_user(u) EXCEPT ![u].pending_food = pending]
                    /\ reply' = FoodFound(pending)
                    /\ food_conv' = [food_conv EXCEPT ![u] = FOOD_GRAMS]
    /\ UNCHANGED <<user_data, profile_conv, running>>

\* log_food_grams without its data["pending_food"] = None
log_food_grams_keeps_pending(u, text) ==
    LET data == Data(u)
        pending == data.pending_food
        grams == parse_float(text)
        kcal == FDiv(FMul(pending.kcal_per_100g, grams), 100)
        logged_calories == FAdd(data.logged_calories, kcal)
    IN
    /\ ToFoodState(u, FOOD_GRAMS)
    /\ update' = Update(u, "text", <<text>>, None)
    /\ IF IsNone(pending)
       THEN /\ users' = get_user(u)
            /\ reply' = Text("no_pending_food")
            /\ food_conv' = [food_conv EXCEPT ![u] = END]
       ELSE IF IsNone(grams) \/ FLe(grams, Num(0))
       THEN /\ users' = get_user(u)
            /\ reply' = Text("grams_invalid")
            /\ food_conv' = [food_conv EXCEPT ![u] = FOOD_GRAMS]
       ELSE /\ InRange(logged_calories, -Kcal(MaxLoggedKcal), Kcal(MaxLoggedKcal))
            /\ users' = [get_user(u) EXCEPT ![u].logged_calories = logged_calories]
            /\ reply' = FoodLogged(kcal)
            /\ food_conv' = [food_conv EXCEPT ![u] = END]
    /\ UNCHANGED <<user_data, profile_conv, running>>

log_food_grams(u, text) ==
    LET data == Data(u)
        pending == data.pending_food
        grams == parse_float(text)
        kcal == FDiv(FMul(pending.kcal_per_100g, grams), 100)
        logged_calories == FAdd(data.logged_calories, kcal)
    IN
    /\ ToFoodState(u, FOOD_GRAMS)
    /\ update' = Update(u, "text", <<text>>, None)
    /\ IF IsNone(pending)
       THEN /\ users' = get_user(u)
            /\ reply' = Text("no_pending_food")
            /\ food_conv' = [food_conv EXCEPT ![u] = END]
       ELSE IF IsNone(grams) \/ FLe(grams, Num(0))
       THEN /\ users' = get_user(u)
            /\ reply' = Text("grams_invalid")
            /\ food_conv' = [food_conv EXCEPT ![u] = FOOD_GRAMS]
       ELSE /\ InRange(logged_calories, -Kcal(MaxLoggedKcal), Kcal(MaxLoggedKcal))
            /\ users' = [get_user(u) EXCEPT ![u].logged_calories = logged_calories,
                                            ![u].pending_food = None]
            /\ reply' = FoodLogged(kcal)
            /\ food_conv' = [food_conv EXCEPT ![u] = END]
    /\ UNCHANGED <<user_data, profile_conv, running>>

log_workout(u, args) ==
    LET data == Data(u)
        workout_type == args[1]
        minutes == parse_float(args[2])
        burned == calc_workout_burned(workout_type, minutes, data.weight)
        burned_calories == FAdd(data.burned_calories, burned)
        extra_water == FScale(FFloorDiv(minutes, 30), 200)
    IN
    /\ update' = Update(u, "log_workout", args, None)
    /\ IF IsNone(data.weight)
       THEN users' = get_user(u) /\ reply' = Text("need_profile")
       ELSE IF Len(args) < 2
       THEN users' = get_user(u) /\ reply' = Text("workout_usage")
       ELSE IF IsNone(minutes) \/ FLe(minutes, Num(0))
       THEN users' = get_user(u) /\ reply' = Text("workout_invalid")
       ELSE /\ InRange(burned_calories, 0, Kcal(MaxBurnedKcal))
            /\ users' = [get_user(u) EXCEPT ![u].burned_calories = burned_calories]
            /\ reply' = WorkoutLogged(workout_type, minutes, burned, extra_water)
    /\ UNCHANGED <<user_data, profile_conv, food_conv, running>>

\* check_progress that starts a new count of water once it has reported
check_progress_resets(u) ==
    /\ update' = Update(u, "check_progress", << >>, None)
    /\ users' = IF IsNone(Data(u).weight) THEN get_user(u)
                 ELSE [get_user(u) EXCEPT ![u].logged_water = Num(0)]
    /\ reply' = IF IsNone(Data(u).weight) THEN Text("need_profile")
                 ELSE Progress(Data(u))
    /\ UNCHANGED <<user_data, profile_conv, food_conv, running>>

check_progress(u) ==
    /\ update' = Update(u, "check_progress", << >>, None)
    /\ users' = get_user(u)
    /\ reply' = IF IsNone(Data(u).weight) THEN Text("need_profile")
                 ELSE Progress(Data(u))
    /\ UNCHANGED <<user_data, profile_conv, food_conv, running>>

\* cancel that also drops the pending food of the user's record
cancel_clears_pending(u) ==
    /\ InProfile(u) \/ InFood(u)
    /\ update' = Update(u, "cancel", << >>, None)
    /\ reply' = Text("cancelled")
    /\ user_data' = [user_data EXCEPT ![u] = EmptyDict]
    /\ users' = [get_user(u) EXCEPT ![u].pending_food = None]
    /\ UNCHANGED running
    /\ IF InProfile(u)
       THEN /\ profile_conv' = [profile_conv EXCEPT ![u] = END]
            /\ UNCHANGED food_conv
       ELSE /\ food_conv' = [food_conv EXCEPT ![u] = END]
            /\ UNCHANGED profile_conv

\* fallback of both conversations; profile_conv is registered first, so while
\* it is running it takes /cancel and food_conv does not see the update
cancel(u) ==
    /\ InProfile(u) \/ InFood(u)
    /\ update' = Update(u, "cancel", << >>, None)
    /\ user_data' = [user_data EXCEPT ![u] = EmptyDict]
    /\ IF InProfile(u)
       THEN /\ profile_conv' = [profile_conv EXCEPT ![u] = END]
            /\ UNCHANGED food_conv
       ELSE /\ food_conv' = [food_conv EXCEPT ![u] = END]
            /\ UNCHANGED profile_conv
    /\ reply' = Text("cancelled")
    /\ UNCHANGED <<users, running>>

----------------------------------------------------------------------------
(* Specification *)

Next ==
    \E u \in Users :
        \/ start(u)
        \/ set_profile(u)
        \/ \E text \in WeightTexts : set_weight(u, text)
        \/ \E text \in HeightTexts : set_height(u, text)
        \/ \E text \in AgeTexts : set_age(u, text)
        \/ \E text \in ActivityTexts : set_activity(u, text)
        \/ \E text \in CityTexts : set_city(u, text)
        \/ \E text \in CalGoalTexts, temp_c \in Temperatures : set_cal_goal(u, text, temp_c)
        \/ \E args \in WaterArgs : log_water(u, args)
        \/ \E args \in FoodArgs, resp \in FoodResponses : log_food(u, args, resp)
        \/ \E text \in GramsTexts : log_food_grams(u, text)
        \/ \E args \in WorkoutArgs : log_workout(u, args)
        \/ check_progress(u)
        \/ cancel(u)

Spec == Init /\ [][Next]_vars

\* Two users who run the two dialogues side by side, each with one valid
\* profile; the handlers are those of Spec.
TwoUsers == {"u1", "u2"}

InitTwo ==
    /\ users = [user_id \in {} |-> DefaultRecord]
    /\ user_data = [u \in TwoUsers |-> EmptyDict]
    /\ profile_conv = [u \in TwoUsers |-> END]
    /\ food_conv = [u \in TwoUsers |-> END]
    /\ update = NoUpdate
    /\ reply = NoReply
    /\ running = << >>

NextTwo ==
    \E u \in TwoUsers :
        \/ set_profile(u)
        \/ \E text \in {"0", "70,0"} : set_weight(u, text)
        \/ set_height(u, "175")
        \/ set_age(u, "30")
        \/ set_activity(u, "0")
        \/ set_city(u, " X ")
        \/ set_cal_goal(u, "0", None)
        \/ \E resp \in {NoProduct, Product("Apple", Num(250), Num(1046))} :
              log_food(u, <<"apple">>, resp)
        \/ log_food_grams(u, "150")
        \/ check_progress(u)
        \/ cancel(u)

SpecTwo == InitTwo /\ [][NextTwo]_vars

\* Two /log_water updates of one user delivered together, as with
\* concurrent_updates: each handler is a coroutine that runs until it awaits
\* and gives way to the other only there.  The user has the profile 70 kg,
\* 175 cm, 30 years, 0 minutes, city X, set without override and without
\* temperature.
OverlapHandlers == 1 .. 2
OverlapLogged == {Num(0), Num(1500)}
OverlapArgs == {<<"0">>, <<"30">>, <<"150">>, <<"175">>}

OverlapRecord(logged_water) ==
    LET scratch == [key \in ProfileKeys |->
                       CASE key = "weight" -> Num(70)
                         [] key = "height" -> Num(175)
                         [] key = "age" -> Num(30)
                         [] key = "activity" -> Num(0)
                         [] key = "city" -> Str("X")]
        profile == update_profile(DefaultRecord, scratch,
                                  calc_water_goal(Num(70), Num(0), None),
                                  calc_calorie_goal(Num(70), Num(175), Num(30), Num(0)))
    IN  [profile EXCEPT !.logged_water = logged_water]

\* a handler of the pair: where it stands, its update, and the logged_water of
\* the record when the update was delivered
Delivered(u, args, logged_water) ==
    [pc |-> "delivered", user |-> u, args |-> args, logged_water |-> logged_water]

InitOverlap ==
    /\ \E logged_water \in OverlapLogged, args1 \in OverlapArgs, args2 \in OverlapArgs :
          /\ users = [u \in Users |-> OverlapRecord(logged_water)]
          /\ running = << Delivered("u1", args1, logged_water),
                          Delivered("u1", args2, logged_water) >>
    /\ user_data = [u \in Users |-> EmptyDict]
    /\ profile_conv = [u \in Users |-> END]
    /\ food_conv = [u \in Users |-> END]
    /\ update = NoUpdate
    /\ reply = NoReply

\* a handler that read data["logged_water"] when its update was delivered and
\* writes that value plus its amount
log_water_start_stale(h) ==
    LET u == running[h].user
        args == running[h].args
        amount == parse_float(args[1])
        logged_water == FAdd(running[h].logged_water, amount)
    IN
    /\ running[h].pc = "delivered"
    /\ update' = Update(u, "log_water", args, None)
    /\ IF IsNone(amount) \/ FLe(amount, Num(0))
       THEN users' = get_user(u) /\ reply' = Text("water_invalid")
       ELSE /\ users' = [get_user(u) EXCEPT ![u].logged_water = logged_water]
            /\ reply' = WaterLogged(amount, Max0(FSub(Data(u).water_goal, logged_water)))
    /\ running' = [running EXCEPT ![h].pc = "await_reply"]
    /\ UNCHANGED <<user_data, profile_conv, food_conv>>

\* the handler runs from its first line to the await of its reply_text
log_water_start(h) ==
    /\ running[h].pc = "delivered"
    /\ log_water_to_await(running[h].user, running[h].args)
    /\ running' = [running EXCEPT ![h].pc = "await_reply"]

\* reply_text has completed: the handler returns
log_water_return(h) ==
    /\ running[h].pc = "await_reply"
    /\ running' = [running EXCEPT ![h].pc = "returned"]
    /\ UNCHANGED <<users, user_data, profile_conv, food_conv, update, reply>>

NextOverlap ==
    \E h \in OverlapHandlers :
        \/ log_water_start(h)
        \/ log_water_return(h)

SpecOverlap == InitOverlap /\ [][NextOverlap]_vars

\* Profile conversations that have collected their five values and wait for
\* the calorie goal; the reply "0" has both goals computed.  The values and the
\* temperatures lie on and around the boundaries of the two derivation
\* functions.
GoalWeights == {Num(50), Num(70)}
GoalHeights == {Num(160), Num(175)}
GoalAges == {Num(30), Num(45)}
GoalActivities ==
    {Num(0), Num(29), Num(30), Num(31), Num(59), Num(60), Num(61), Num(90)}
GoalTemperatures == {None, Num(-5), Num(25), Num(26), Num(30), Num(31)}

InitGoals ==
    /\ \E weight \in GoalWeights, height \in GoalHeights, age \in GoalAges,
          activity \in GoalActivities :
          user_data = [u \in Users |->
              SetItem(SetItem(SetItem(SetItem(SetItem(EmptyDict,
                  "weight", weight), "height", height), "age", age),
                  "activity", activity), "city", Str("X"))]
    /\ users = [user_id \in {} |-> DefaultRecord]
    /\ profile_conv = [u \in Users |-> SET_CAL_GOAL]
    /\ food_conv = [u \in Users |-> END]
    /\ update = Update("u1", "text", <<" X ">>, None)
    /\ reply = Text("ask_cal_goal")
    /\ running = << >>

NextGoals ==
    \E u \in Users, temp_c \in GoalTemperatures : set_cal_goal(u, "0", temp_c)

SpecGoals == InitGoals /\ [][NextGoals]_vars

----------------------------------------------------------------------------
(* Vocabulary of the properties *)

\* the users of the run
AllUsers == DOMAIN profile_conv

\* the record get_user would return for the user in store us
Rec(us, u) == IF u \in DOMAIN us THEN us[u] ELSE DefaultRecord

\* the conversation state a text of the user is routed to
TextState(u) == IF InProfile(u) THEN profile_conv[u] ELSE food_conv[u]

\* a number that parses and is > 0, respectively >= 0
ParsesPositive(text) == LET v == parse_float(text) IN IsNum(v) /\ v.v > 0
ParsesNonNegative(text) == LET v == parse_float(text) IN IsNum(v) /\ v.v >= 0

\* the reply a conversation state asks for
ValidReply(state, text) ==
    CASE state \in {SET_WEIGHT, SET_HEIGHT, SET_AGE, FOOD_GRAMS} -> ParsesPositive(text)
      [] state \in {SET_ACTIVITY, SET_CAL_GOAL} -> ParsesNonNegative(text)
      [] state = SET_CITY -> Strip(text) # ""
      [] OTHER -> TRUE

\* the step handles an update of user u with command cmd
Handles(u, cmd) == update'.user = u /\ update'.cmd = cmd

ProfileFields(r) ==
    <<r.weight, r.height, r.age, r.activity, r.city, r.water_goal, r.calorie_goal>>

----------------------------------------------------------------------------
(* Properties *)

\* C1: a reply that fails the validation of its conversation state (weight,
\* height, age, grams: parses and > 0; activity, calorie override: parses and
\* >= 0; city: not empty once stripped) leaves both conversations in their
\* state, the scratch dictionary unchanged and the user's record unchanged.
C1_InvalidReplyChangesNothing ==
    [][\A u \in AllUsers :
        (Handles(u, "text") /\ ~ValidReply(TextState(u), update'.arg[1]))
        => /\ profile_conv'[u] = profile_conv[u]
           /\ food_conv'[u] = food_conv[u]
           /\ user_data'[u] = user_data[u]
           /\ Rec(users', u) = Rec(users, u)]_vars

\* C2: the profile conversation moves only along SET_WEIGHT, SET_HEIGHT,
\* SET_AGE, SET_ACTIVITY, SET_CITY, SET_CAL_GOAL, END: a text reply keeps the
\* state or moves it to its immediate successor, no step of any kind skips a
\* state or goes back to an earlier one, a run starts at SET_WEIGHT, and the
\* profile fields of the record change only on the step from SET_CAL_GOAL to END.
C2_ProfileOrder ==
    [][\A u \in AllUsers :
        LET a == profile_conv[u]
            b == profile_conv'[u]
            Succ(st) == IF st = SET_CAL_GOAL THEN END ELSE st + 1
        IN  /\ (Handles(u, "text") /\ a # END) => b \in {a, Succ(a)}
            /\ (a # END /\ b # END) => b \in {a, a + 1}
            /\ (a = END /\ b # END) => b = SET_WEIGHT
            /\ ProfileFields(Rec(users', u)) # ProfileFields(Rec(users, u))
               => (Handles(u, "text") /\ a = SET_CAL_GOAL /\ b = END)]_vars

\* a run of the profile conversation has gone through every state and has
\* committed the profile with the override "2000"
C2_Witness ==
    \E u \in AllUsers :
        /\ update = Update(u, "text", <<"2000">>, None)
        /\ profile_conv[u] = END
        /\ u \in DOMAIN users
        /\ users[u].weight = Num(70) /\ users[u].height = Num(175)
        /\ users[u].age = Num(30) /\ users[u].city = Str("X")

\* C3: a valid override (parses, >= 0) in SET_CAL_GOAL replaces in that one
\* step weight, height, age, activity and city by the scratch values,
\* water_goal by calc_water_goal(scratch weight, scratch activity, looked-up
\* temperature) and calorie_goal by the override if it is > 0, else by
\* calc_calorie_goal of the scratch values; it empties the scratch dictionary
\* and ends the conversation.  No other step changes any of the seven fields,
\* so no state holds a mix of old and new ones.
C3_ProfileCommit ==
    [][\A u \in AllUsers :
        LET scratch == user_data[u]
            text == update'.arg[1]
            override == parse_float(text)
            temp_c == update'.ext
            after == Rec(users', u)
            Commits == /\ Handles(u, "text")
                       /\ profile_conv[u] = SET_CAL_GOAL
                       /\ ParsesNonNegative(text)
        IN  /\ Commits =>
                /\ after.weight = scratch["weight"]
                /\ after.height = scratch["height"]
                /\ after.age = scratch["age"]
                /\ after.activity = scratch["activity"]
                /\ after.city = scratch["city"]
                /\ after.water_goal
                     = calc_water_goal(scratch["weight"], scratch["activity"], temp_c)
                /\ after.calorie_goal
                     = IF override.v > 0 THEN Num(Kcal(override.v))
                       ELSE calc_calorie_goal(scratch["weight"], scratch["height"],
                                              scratch["age"], scratch["activity"])
                /\ user_data'[u] = EmptyDict
                /\ profile_conv'[u] = END
            /\ ProfileFields(after) # ProfileFields(Rec(users, u)) => Commits]_vars

\* the profile 70 kg, 175 cm, 30 years, 0 minutes has been committed with the
\* override "0" at 31 degrees: 70*30 + 1000 ml and 700 + 1093.75 - 150 + 200 kcal
C3_Witness ==
    \E u \in AllUsers :
        /\ update = Update(u, "text", <<"0">>, Num(31))
        /\ profile_conv[u] = END /\ user_data[u] = EmptyDict
        /\ u \in DOMAIN users
        /\ users[u].weight = Num(70) /\ users[u].activity = Num(0)
        /\ users[u].water_goal = Num(3100)
        /\ users[u].calorie_goal = Num(1843750)

\* C4: /cancel received while the profile conversation is in any of its
\* states ends that conversation, empties the scratch dictionary and leaves
\* the store as it was: no field of any record changes, no record is created.
C4_CancelProfile ==
    [][\A u \in AllUsers :
        (Handles(u, "cancel") /\ InProfile(u))
        => /\ profile_conv'[u] = END
           /\ user_data'[u] = EmptyDict
           /\ users' = users]_vars

\* a user without a record has cancelled the profile conversation while
\* another user has a profile and a pending food
C4_Witness ==
    \E u \in AllUsers :
        /\ update = Update(u, "cancel", << >>, None)
        /\ profile_conv[u] = END /\ user_data[u] = EmptyDict
        /\ u \notin DOMAIN users
        /\ \E other \in DOMAIN users :
              /\ users[other].weight = Num(70)
              /\ ~IsNone(users[other].pending_food)

\* C5: after a /cancel of a user is handled, neither the profile conversation
\* nor the food conversation of that user is running.
C5_CancelEndsBoth ==
    [][\A u \in AllUsers :
        Handles(u, "cancel") => (profile_conv'[u] = END /\ food_conv'[u] = END)]_vars

\* C6: a user whose food conversation is not in FOOD_GRAMS has no pending food.
C6_PendingOnlyInDialogue ==
    \A u \in AllUsers :
        food_conv[u] # FOOD_GRAMS => IsNone(Rec(users, u).pending_food)

\* C7: a stored pending food has kcal_per_100g > 0.
C7_PendingPositive ==
    \A u \in AllUsers :
        LET pending == Rec(users, u).pending_food
        IN  ~IsNone(pending) => FGt(pending.kcal_per_100g, Num(0))

\* C8: a successful /log_water, /log_workout or grams reply (profile set,
\* argument parses and is > 0) makes its accumulator strictly greater, by the
\* logged ml, by minutes * rate * weight / 70, by kcal_per_100g * grams / 100
\* respectively, and leaves the other two accumulators unchanged.
C8_LogsIncrease ==
    [][\A u \in AllUsers :
        LET before == Rec(users, u)
            after == Rec(users', u)
            args == update'.arg
        IN  /\ (/\ Handles(u, "log_water")
                /\ ~IsNone(before.weight)
                /\ Len(args) >= 1 /\ ParsesPositive(args[1]))
               => /\ after.logged_water
                       = FAdd(before.logged_water, parse_float(args[1]))
                  /\ FGt(after.logged_water, before.logged_water)
                  /\ after.logged_calories = before.logged_calories
                  /\ after.burned_calories = before.burned_calories
            /\ (/\ Handles(u, "log_workout")
                /\ ~IsNone(before.weight)
                /\ Len(args) >= 2 /\ ParsesPositive(args[2]))
               => /\ after.burned_calories
                       = FAdd(before.burned_calories,
                              calc_workout_burned(args[1], parse_float(args[2]),
                                                  before.weight))
                  /\ FGt(after.burned_calories, before.burned_calories)
                  /\ after.logged_water = before.logged_water
                  /\ after.logged_calories = before.logged_calories
            /\ (/\ Handles(u, "text")
                /\ TextState(u) = FOOD_GRAMS
                /\ ~IsNone(before.pending_food)
                /\ ParsesPositive(args[1]))
               => /\ after.logged_calories
                       = FAdd(before.logged_calories,
                              FDiv(FMul(before.pending_food.kcal_per_100g,
                                        parse_float(args[1])), 100))
                  /\ FGt(after.logged_calories, before.logged_calories)
                  /\ after.logged_water = before.logged_water
                  /\ after.burned_calories = before.burned_calories]_vars

\* C9: no step makes logged_water, logged_calories or burned_calories of a
\* user smaller than it was, and none of them is negative in any state.
C9_AccumulatorsMonotone ==
    /\ [](\A u \in AllUsers :
            LET r == Rec(users, u)
            IN  /\ FLe(Num(0), r.logged_water)
                /\ FLe(Num(0), r.logged_calories)
                /\ FLe(Num(0), r.burned_calories))
    /\ [][\A u \in AllUsers :
            LET before == Rec(users, u)
                after == Rec(users', u)
            IN  /\ FLe(before.logged_water, after.logged_water)
                /\ FLe(before.logged_calories, after.logged_calories)
                /\ FLe(before.burned_calories, after.burned_calories)]_vars

\* C10: /log_water, /log_workout, /check_progress and /log_food of a user
\* whose weight is not set change no field of that user's record and do not
\* leave the food conversation in FOOD_GRAMS.
C10_NoProfileNoMutation ==
    [][\A u \in AllUsers :
        (/\ IsNone(Rec(users, u).weight)
         /\ update'.user = u
         /\ update'.cmd \in {"log_water", "log_workout", "check_progress", "log_food"})
        => /\ Rec(users', u) = Rec(users, u)
           /\ food_conv'[u] # FOOD_GRAMS]_vars

\* /log_food apple of a user without profile has been refused: the record
\* get_user created holds the defaults and the food conversation is not running
C10_Witness ==
    \E u \in AllUsers :
        /\ update = Update(u, "log_food", <<"apple">>, None)
        /\ u \in DOMAIN users
        /\ users[u] = DefaultRecord
        /\ food_conv[u] = END

\* C11: when the lookup of /log_food (profile set, a food name given) returns
\* None, the food conversation ends without entering FOOD_GRAMS, the reply says
\* that nothing was found, and no field of the user's record changes: in
\* particular logged_calories is what it was and a pending_food that was not
\* set is still not set.
C11_NotFoundChangesNothing ==
    [][\A u \in AllUsers :
        LET before == Rec(users, u)
            after == Rec(users', u)
        IN  (/\ Handles(u, "log_food")
             /\ ~IsNone(before.weight)
             /\ update'.arg # << >>
             /\ IsNone(update'.ext))
            => /\ food_conv'[u] = END
               /\ reply' = Text("food_not_found")
               /\ after = before
               /\ after.logged_calories = before.logged_calories
               /\ IsNone(before.pending_food) => IsNone(after.pending_food)]_vars

\* /log_food apple of a user with a profile found nothing: the food
\* conversation is not running and the record has no pending food
C11_Witness ==
    \E u \in AllUsers :
        /\ update = Update(u, "log_food", <<"apple">>, None)
        /\ reply = Text("food_not_found")
        /\ u \in DOMAIN users
        /\ users[u].weight = Num(70)
        /\ IsNone(users[u].pending_food)
        /\ users[u].logged_calories = Num(Kcal(375))
        /\ food_conv[u] = END

\* C12: a reply the food conversation takes in FOOD_GRAMS while a pending food
\* is stored, and that parses to grams > 0, makes in that one step
\* logged_calories greater by kcal_per_100g * grams / 100, unsets pending_food
\* and ends the food conversation.  The two changes never come apart: a step
\* that changes logged_calories unsets a pending food that was set, and a step
\* that unsets a pending food is a grams step that has added its energy.
C12_GramsCommit ==
    [][\A u \in AllUsers :
        LET before == Rec(users, u)
            after == Rec(users', u)
            text == update'.arg[1]
            kcal == FDiv(FMul(before.pending_food.kcal_per_100g, parse_float(text)), 100)
            InGrams == Handles(u, "text") /\ TextState(u) = FOOD_GRAMS
        IN  /\ (InGrams /\ ~IsNone(before.pending_food) /\ ParsesPositive(text))
               => /\ after.logged_calories = FAdd(before.logged_calories, kcal)
                  /\ IsNone(after.pending_food)
                  /\ food_conv'[u] = END
                  /\ reply' = FoodLogged(kcal)
            /\ after.logged_calories # before.logged_calories
               => (~IsNone(before.pending_food) /\ IsNone(after.pending_food))
            /\ (~IsNone(before.pending_food) /\ IsNone(after.pending_food))
               => /\ InGrams
                  /\ after.logged_calories = FAdd(before.logged_calories, kcal)
                  /\ food_conv'[u] = END]_vars

\* 150 g of a pending food of 250 kcal per 100 g have been logged: 375 kcal,
\* no pending food, the food conversation is over
C12_Witness ==
    \E u \in AllUsers :
        /\ update = Update(u, "text", <<"150">>, None)
        /\ reply = FoodLogged(Num(Kcal(375)))
        /\ u \in DOMAIN users
        /\ users[u].logged_calories = Num(Kcal(375))
        /\ IsNone(users[u].pending_food)
        /\ food_conv[u] = END /\ profile_conv[u] = END

\* C13: two /log_water updates of one user whose handlers overlap, with
\* amounts a > 0 and b > 0: once both handlers have returned, logged_water is
\* what it was when they were delivered plus a + b, whatever the order in
\* which the two handlers ran and were resumed; and at every moment it is that
\* value plus the amounts of the handlers that have passed their addition.
C13_NoLostUpdate ==
    LET Amount(h) == parse_float(running[h].args[1])
        Added(h) == IF running[h].pc # "delivered" /\ ParsesPositive(running[h].args[1])
                    THEN Amount(h).v ELSE 0
    IN  running # << >> =>
        \A u \in AllUsers :
            /\ users[u].logged_water
                 = Num(running[1].logged_water.v + Added(1) + Added(2))
            /\ (\A h \in DOMAIN running :
                    running[h].pc = "returned" /\ ParsesPositive(running[h].args[1]))
               => users[u].logged_water
                    = Num(running[1].logged_water.v + Amount(1).v + Amount(2).v)

\* both handlers have returned, the one that adds 30 ml having started last:
\* 1500 + 150 + 30 ml are logged
C13_Witness ==
    /\ running # << >>
    /\ running[1].pc = "returned" /\ running[2].pc = "returned"
    /\ running[1].args = <<"30">> /\ running[2].args = <<"150">>
    /\ update = Update("u1", "log_water", <<"30">>, None)
    /\ users["u1"].logged_water = Num(1680)
    /\ reply = WaterLogged(Num(30), Num(420))

\* C14: /check_progress changes no field of any user's record, no
\* conversation state and no scratch dictionary, and a /check_progress of a
\* user handled right after a /check_progress of the same user sends the same
\* text, figure for figure.
C14_CheckProgressReadOnly ==
    [][\A u \in AllUsers :
        Handles(u, "check_progress")
        => /\ \A other \in AllUsers : Rec(users', other) = Rec(users, other)
           /\ profile_conv' = profile_conv
           /\ food_conv' = food_conv
           /\ user_data' = user_data
           /\ (update.user = u /\ update.cmd = "check_progress") => reply' = reply]_vars

\* /check_progress has reported 1500 ml drunk of 2100 ml, 600 ml left, and
\* 375 kcal eaten, for a record that still holds these amounts
C14_Witness ==
    \E u \in AllUsers :
        /\ update = Update(u, "check_progress", << >>, None)
        /\ u \in DOMAIN users
        /\ users[u].weight = Num(70)
        /\ reply = Progress(users[u])
        /\ users[u].logged_water = Num(1500)
        /\ users[u].logged_calories = Num(Kcal(375))
        /\ reply.logged_water = Num(1500)
        /\ reply.water_left = Num(600)
        /\ reply.consumed = Num(375)

\* C15: the figure "left" of every report is the goal minus the logged total,
\* never below zero.  A successful /log_water (profile set, amount parses and
\* is > 0) reports max(water_goal - logged_water, 0) with the amount just
\* logged counted in; /check_progress of a user with a profile reports
\* max(water_goal - logged_water, 0) and
\* max(calorie_goal - (logged_calories - burned_calories), 0), to the nearest
\* ml and kcal; each reported figure is a number >= 0.
C15_RemainingClamped ==
    [][\A u \in AllUsers :
        LET before == Rec(users, u)
            after == Rec(users', u)
            args == update'.arg
            Clamp(x) == IF x < 0 THEN 0 ELSE x
        IN  /\ (/\ Handles(u, "log_water")
                /\ ~IsNone(before.weight)
                /\ Len(args) >= 1 /\ ParsesPositive(args[1]))
               => /\ IsNum(reply'.remaining)
                  /\ reply'.remaining.v >= 0
                  /\ reply'.remaining.v
                       = Clamp(after.water_goal.v - after.logged_water.v)
            /\ (Handles(u, "check_progress") /\ ~IsNone(before.weight))
               => /\ IsNum(reply'.water_left)
                  /\ reply'.water_left.v >= 0
                  /\ reply'.water_left.v
                       = Clamp(after.water_goal.v - after.logged_water.v)
                  /\ IsNum(reply'.remaining)
                  /\ reply'.remaining.v >= 0
                  /\ reply'.remaining.v
                       = RoundHalfEven(
                             Clamp(after.calorie_goal.v
                                   - (after.logged_calories.v - after.burned_calories.v)),
                             Kcal(1))]_vars

\* C16: for every weight w > 0, activity a >= 0 and temperature t, the water
\* goal stored by the last profile step is 30 * w + 500 * floor(a / 30) +
\* heat(t), where heat is 0 when the temperature is unknown or t <= 25, 500
\* when 25 < t <= 30 and 1000 when t > 30: exactly 25 adds nothing and
\* exactly 30 adds 500.
C16_WaterGoalFormula ==
    [][\A u \in AllUsers :
        LET w == user_data[u]["weight"]
            a == user_data[u]["activity"]
            t == update'.ext
            heat == IF IsNone(t) THEN 0
                    ELSE IF t.v <= 25 THEN 0
                    ELSE IF t.v <= 30 THEN 500
                    ELSE 1000
        IN  (/\ Handles(u, "text")
             /\ profile_conv[u] = SET_CAL_GOAL /\ profile_conv'[u] = END
             /\ IsNum(w) /\ w.v > 0 /\ IsNum(a) /\ a.v >= 0)
            => users'[u].water_goal = Num(30 * w.v + 500 * (a.v \div 30) + heat)]_vars

\* 70 kg, 31 minutes and exactly 30 degrees: 2100 + 500 + 500 ml
C16_Witness ==
    \E u \in DOMAIN users :
        /\ update = Update(u, "text", <<"0">>, Num(30))
        /\ users[u].weight = Num(70)
        /\ users[u].activity = Num(31)
        /\ users[u].water_goal = Num(3100)

\* C17: the calorie goal computed by the last profile step (override 0) is
\* 10 * weight + 6.25 * height - 5 * age + bonus for all numbers weight,
\* height, age and activity, where bonus is 200 when activity <= 30, 300 when
\* 30 < activity <= 60 and 400 when activity > 60: 30 gives 200, 31 and 60 give
\* 300, 61 gives 400.
C17_CalorieGoalFormula ==
    [][\A u \in AllUsers :
        LET weight == user_data[u]["weight"]
            height == user_data[u]["height"]
            age == user_data[u]["age"]
            activity == user_data[u]["activity"]
            bonus == IF activity.v <= 30 THEN 200
                     ELSE IF activity.v <= 60 THEN 300
                     ELSE 400
        IN  (/\ Handles(u, "text")
             /\ profile_conv[u] = SET_CAL_GOAL /\ profile_conv'[u] = END
             /\ parse_float(update'.arg[1]) = Num(0)
             /\ IsNum(weight) /\ IsNum(height) /\ IsNum(age) /\ IsNum(activity))
            => users'[u].calorie_goal
                 = Num(10000 * weight.v + 6250 * height.v - 5000 * age.v + 1000 * bonus)]_vars

\* 70 kg, 175 cm, 30 years and exactly 60 minutes: 700 + 1093.75 - 150 + 300 kcal
C17_Witness ==
    \E u \in DOMAIN users :
        /\ update.cmd = "text" /\ update.arg = <<"0">>
        /\ users[u].weight = Num(70) /\ users[u].height = Num(175)
        /\ users[u].age = Num(30) /\ users[u].activity = Num(60)
        /\ users[u].calorie_goal = Num(1943750)

\* C18: in every state and for every user, weight is set exactly when
\* water_goal is set and exactly when calorie_goal is set; so a handler that
\* has found weight set subtracts from goals that are not None.
C18_GoalsWithWeight ==
    \A u \in AllUsers :
        LET r == Rec(users, u)
        IN  /\ IsNone(r.weight) <=> IsNone(r.water_goal)
            /\ IsNone(r.weight) <=> IsNone(r.calorie_goal)

\* /log_water of a user with a profile has passed the check of weight and
\* reported what is left of a water goal of 2100 ml
C18_Witness ==
    \E u \in DOMAIN users :
        /\ update = Update(u, "log_water", <<"1500">>, None)
        /\ reply = WaterLogged(Num(1500), Num(600))
        /\ users[u].weight = Num(70)
        /\ users[u].water_goal = Num(2100)
        /\ users[u].calorie_goal = Num(Kcal(2000))

\* C19: while the profile conversation of a user is past a step, the scratch
\* dictionary holds that step's value and the value is a valid one: weight,
\* height and age are numbers > 0, activity is a number >= 0, city is not
\* empty.  In SET_CAL_GOAL all five are there, so set_cal_goal finds every
\* key it reads.
C19_ScratchComplete ==
    \A u \in AllUsers :
        LET state == profile_conv[u]
            scratch == user_data[u]
            Positive(key) == /\ key \in DOMAIN scratch
                             /\ IsNum(scratch[key]) /\ scratch[key].v > 0
        IN  /\ state \in SET_HEIGHT .. SET_CAL_GOAL => Positive("weight")
            /\ state \in SET_AGE .. SET_CAL_GOAL => Positive("height")
            /\ state \in SET_ACTIVITY .. SET_CAL_GOAL => Positive("age")
            /\ state \in SET_CITY .. SET_CAL_GOAL
               => /\ "activity" \in DOMAIN scratch
                  /\ IsNum(scratch["activity"]) /\ scratch["activity"].v >= 0
            /\ state = SET_CAL_GOAL
               => /\ "city" \in DOMAIN scratch
                  /\ scratch["city"].s # ""

\* C20: the step that completes the profile conversation of a user, the
\* first time or again, leaves logged_water, logged_calories, burned_calories
\* and pending_food of that user as they were, and leaves every other user as
\* that user was: a record stays field for field the same, and no record is
\* created or removed.
C20_CommitFrame ==
    [][\A u \in AllUsers :
        LET before == Rec(users, u)
            after == Rec(users', u)
        IN  (/\ Handles(u, "text")
             /\ profile_conv[u] = SET_CAL_GOAL /\ profile_conv'[u] = END)
            => /\ after.logged_water = before.logged_water
               /\ after.logged_calories = before.logged_calories
               /\ after.burned_calories = before.burned_calories
               /\ after.pending_food = before.pending_food
               /\ \A other \in AllUsers \ {u} :
                     /\ other \in DOMAIN users' <=> other \in DOMAIN users
                     /\ Rec(users', other) = Rec(users, other)]_vars

\* a user with 375 kcal logged and a pending food has completed the profile
\* conversation again, while another user has a profile and a pending food
C20_Witness ==
    \E u \in DOMAIN users :
        /\ update = Update(u, "text", <<"0">>, None)
        /\ profile_conv[u] = END
        /\ users[u].weight = Num(70)
        /\ users[u].logged_calories = Num(Kcal(375))
        /\ ~IsNone(users[u].pending_food)
        /\ \E other \in DOMAIN users \ {u} :
              /\ users[other].weight = Num(70)
              /\ ~IsNone(users[other].pending_food)

====
